---- MODULE Spec2Model ----
(***************************************************************************)
(* A model of a43.py: PyArtConfig (per-attribute ranges and their preset   *)
(* narrowing calls), RandomShape (sampling and rendering of one shape),    *)
(* and the drivers' position while they configure and then sample.         *)
(*                                                                         *)
(* Numbers.  Integer attributes are integers.  Opacity is a real number in *)
(* the code; here it is counted in hundredths (0.33 is 33), and a rounded  *)
(* opacity is counted in tenths (0.3 is 3).                                *)
(*                                                                         *)
(* Randomness.  The process-wide random source is an input: each draw is a *)
(* fraction u/Grain of the way from the low to the high bound, u in        *)
(* 0..Grain, so both bounds and interior points are drawn.  One call of    *)
(* generate_shape consumes two independent fractions, used alternately by  *)
(* its successive draws, and an independent choice of the kind.            *)
(*                                                                         *)
(* Each RandomShape(config) builds a new object from config alone, so a    *)
(* turn of a driver's loop starts with no shape and no line.               *)
(***************************************************************************)
EXTENDS Integers, Sequences, FiniteSets, TLC

VARIABLES
    pc,        \* the driver's position: "configure", then "loop"
    config,    \* the PyArtConfig object (its attributes, by name)
    rand,      \* the driver's local `rand`: the last RandomShape built, or NoShape
    svg,       \* the last value returned by rand.as_svg(), or NoSvg
    call,      \* the operation that ran last and its arguments
    err,       \* the exception the last operation raised, or "none"
    ncalls,    \* how many preset calls have run on config
    probe,     \* SpecBands: the attribute and value under test, and the bands tried
    mpc,       \* SpecMain: the generator main() is in, and the position in its gen()
    file,      \* SpecMain: per generator, its output file: status and what was written
    canvas,    \* SpecMain: the SvgCanvas object of the running gen(), or NoCanvas
    locals,    \* SpecMain: the local variables of the running gen()
    exc,       \* SpecMain: the exception in flight, or "none"
    lines,     \* SpecTable: the list of lines a caller collects for TableGen
    df         \* SpecTable: the table TableGen(lines).gen_df() built last, or NoTable

vars == <<pc, config, rand, svg, call, err, ncalls, probe, mpc, file, canvas, locals, exc, lines, df>>
tablevars == <<lines, df>>
cfgvars == <<pc, config, rand, svg, call, err, ncalls>>
mainvars == <<mpc, file, canvas, locals, exc>>

(***************************************************************************)
(* Bounds of the model.                                                    *)
(***************************************************************************)
Grain == 2        \* draws are fractions 0/Grain .. Grain/Grain of a range
MaxCalls == 2     \* preset calls per config

NoShape == [shape_type |-> -1]
NoSvg == [elem |-> "none"]

(***************************************************************************)
(* SvgCanvas.__init__                                                      *)
(***************************************************************************)
DefaultCanvasSide == 0
ThinkPadW == 1900
ThinkPadH == 1170

SvgCanvas(width, height, bg) == [width |-> width, height |-> height, bg |-> bg]

NoCanvas == [bg |-> "none"]

Canvases == { SvgCanvas(DefaultCanvasSide, DefaultCanvasSide, "white"),
              SvgCanvas(ThinkPadW, ThinkPadH, "black") }

(***************************************************************************)
(* PyArtConfig.__init__                                                    *)
(***************************************************************************)
PyArtConfig(c, shape_type_range, radius_range, rxy_range, w_h_range, color_r_range, color_g_range, color_b_range, opacity_range) ==
    [ shape_type_range |-> shape_type_range,
      x_range |-> <<0, c.width>>,
      y_range |-> <<0, c.height>>,
      radius_range |-> radius_range,
      rxy_range |-> rxy_range,
      w_h_range |-> w_h_range,
      r_range |-> color_r_range,
      g_range |-> color_g_range,
      b_range |-> color_b_range,
      opacity_range |-> opacity_range ]

\* the defaults of __init__'s keyword arguments
DefaultConfig(c) ==
    PyArtConfig(c, <<0, 1, 2>>, <<0, 100>>, <<10, 30>>, <<10, 100>>,
                <<0, 255>>, <<0, 255>>, <<0, 255>>, <<0, 100>>)

(***************************************************************************)
(* PyArtConfig.shapes                                                      *)
(***************************************************************************)
\* an exclusion table that keeps the excluded kind
shape_ranges_Same == [s \in {0, 1, 2} |->
                        IF s = 0 THEN <<0, 2>> ELSE IF s = 1 THEN <<0, 1>> ELSE <<1, 2>>]

shape_ranges == [s \in {0, 1, 2} |->
                    IF s = 0 THEN <<1, 2>> ELSE IF s = 1 THEN <<0, 2>> ELSE <<0, 1>>]

ShapesResult(cfg, shape, amt) ==
    IF shape \in {0, 1, 2}
    THEN IF amt = 1 THEN [cfg EXCEPT !.shape_type_range = <<shape>>]
         ELSE IF amt = 0 THEN [cfg EXCEPT !.shape_type_range = shape_ranges[shape]]
         ELSE cfg
    ELSE cfg

(***************************************************************************)
(* PyArtConfig.size.  A dict argument is the sequence of its (key, value)  *)
(* items in insertion order, with distinct keys.                           *)
(***************************************************************************)
SizeTable ==
    [ p \in {"c", "r", "e"} \X {"s", "m", "l"} |->
        IF p = <<"c", "s">> THEN <<"radius_range", <<0, 33>>>>
        ELSE IF p = <<"r", "s">> THEN <<"w_h_range", <<10, 40>>>>
        ELSE IF p = <<"e", "s">> THEN <<"rxy_range", <<10, 17>>>>
        ELSE IF p = <<"c", "m">> THEN <<"radius_range", <<33, 66>>>>
        ELSE IF p = <<"r", "m">> THEN <<"w_h_range", <<40, 70>>>>
        ELSE IF p = <<"e", "m">> THEN <<"rxy_range", <<17, 24>>>>
        ELSE IF p = <<"c", "l">> THEN <<"radius_range", <<66, 100>>>>
        ELSE IF p = <<"r", "l">> THEN <<"w_h_range", <<70, 100>>>>
        ELSE <<"rxy_range", <<24, 30>>>> ]

\* Python's None where an attribute name is expected, and where a range is expected
NoneName == "None"
NoneValue == <<>>

\* a lookup by kind alone, falling back to the small band for an unknown class
SizeGet_ByKind(shape, sz) ==
    IF <<shape, sz>> \in DOMAIN SizeTable
    THEN SizeTable[<<shape, sz>>]
    ELSE IF shape \in {"c", "r", "e"} THEN SizeTable[<<shape, "s">>]
    ELSE <<NoneName, NoneValue>>

\* ranges.get((shape, size), (None, None))
SizeGet(shape, sz) ==
    IF <<shape, sz>> \in DOMAIN SizeTable
    THEN SizeTable[<<shape, sz>>]
    ELSE <<NoneName, NoneValue>>

\* setattr(self, attr_name, value)
SetAttr(cfg, attr_name, value) ==
    [f \in DOMAIN cfg |-> IF f = attr_name THEN value ELSE cfg[f]]

RECURSIVE SizeResult(_, _)
SizeResult(cfg, shape_sizes) ==
    IF shape_sizes = <<>> THEN cfg
    ELSE LET item == Head(shape_sizes)
             got == SizeGet(item[1], item[2])
         IN  SizeResult(IF got[1] # NoneName /\ got[2] # NoneValue
                        THEN SetAttr(cfg, got[1], got[2])
                        ELSE cfg,
                        Tail(shape_sizes))

(***************************************************************************)
(* PyArtConfig.color                                                       *)
(***************************************************************************)
\* color bands that leave 85 to no band
color_ranges_Gap == << <<0, 0>>, <<0, 84>>, <<86, 170>>, <<170, 255>>, <<255, 255>> >>

color_ranges == << <<0, 0>>, <<0, 85>>, <<85, 170>>, <<170, 255>>, <<255, 255>> >>

\* Python's list indexing: -len..-1 count from the end, anything else
\* outside 0..len-1 raises IndexError
IndexOk(list, i) == i >= 0 - Len(list) /\ i < Len(list)
Index(list, i) == IF i >= 0 THEN list[i + 1] ELSE list[Len(list) + i + 1]

\* the loop of color(): the config it leaves and the exception it raises
RECURSIVE ColorResult(_, _)
ColorResult(cfg, color_amounts) ==
    IF color_amounts = <<>> THEN [cfg |-> cfg, err |-> "none"]
    ELSE LET color == Head(color_amounts)[1]
             amount == Head(color_amounts)[2]
         IN  IF color \in {"r", "g", "b"}
             THEN IF IndexOk(color_ranges, amount)
                  THEN ColorResult(
                          SetAttr(cfg,
                                  IF color = "r" THEN "r_range"
                                  ELSE IF color = "g" THEN "g_range" ELSE "b_range",
                                  Index(color_ranges, amount)),
                          Tail(color_amounts))
                  ELSE [cfg |-> cfg, err |-> "IndexError"]
             ELSE ColorResult(cfg, Tail(color_amounts))

(***************************************************************************)
(* PyArtConfig.op_amt (opacity in hundredths)                              *)
(***************************************************************************)
opacity_ranges == << <<0, 33>>, <<33, 66>>, <<66, 100>>, <<100, 100>> >>

\* an op_amt that indexes as color does, with no membership test
OpAmtResult_Indexed(cfg, amt) ==
    IF IndexOk(opacity_ranges, amt)
    THEN [cfg EXCEPT !.opacity_range = Index(opacity_ranges, amt)]
    ELSE cfg

OpAmtResult(cfg, amt) ==
    IF amt \in {0, 1, 2, 3}
    THEN [cfg EXCEPT !.opacity_range = Index(opacity_ranges, amt)]
    ELSE cfg

(***************************************************************************)
(* The random module.                                                      *)
(***************************************************************************)
Fractions == 0..Grain

\* a randint that accepts either order of its bounds, as uniform does
RandIntOk_AnyOrder(range) == TRUE

\* random.randint(a, b) raises ValueError when a > b
RandIntOk(range) == range[1] <= range[2]
\* a randint that treats its upper bound as randrange does not: one too far
RandInt_PastHigh(range, u) == range[1] + ((range[2] + 1 - range[1]) * u) \div Grain

\* random.randint(a, b), as decided by the fraction u of the random source
RandInt(range, u) == range[1] + ((range[2] - range[1]) * u) \div Grain

\* random.uniform(a, b) = a + (b - a) * random(): it never raises
Uniform(range, u) == range[1] + ((range[2] - range[1]) * u) \div Grain

\* round(x, 1) for x >= 0, from hundredths to tenths.  A hundredth stands for
\* the floating-point values next to it, so a value ending in 5 may round
\* either way; every other value rounds to the nearest tenth.
Round1(h) ==
    IF h % 10 < 5 THEN {h \div 10}
    ELSE IF h % 10 > 5 THEN {h \div 10 + 1}
    ELSE {h \div 10, h \div 10 + 1}

(***************************************************************************)
(* RandomShape.generate_shape, called by RandomShape.__init__              *)
(***************************************************************************)
\* the exception generate_shape raises on cfg, by the first draw that fails
GenerateError(cfg) ==
    IF Len(cfg.shape_type_range) = 0 THEN "IndexError"
    ELSE IF \E f \in {"radius_range", "w_h_range", "rxy_range", "x_range", "y_range",
                      "r_range", "g_range", "b_range"} : ~RandIntOk(cfg[f])
         THEN "ValueError"
         ELSE "none"

\* the attributes generate_shape sets: k is the index random.choice takes,
\* u1 and u2 the fractions its draws take alternately, op the rounded opacity
generate_shape(cfg, k, u1, u2, op) ==
    [ shape_type |-> cfg.shape_type_range[k],
      radius |-> RandInt(cfg.radius_range, u1),
      width |-> RandInt(cfg.w_h_range, u2),
      height |-> RandInt(cfg.w_h_range, u1),
      rx |-> RandInt(cfg.rxy_range, u2),
      ry |-> RandInt(cfg.rxy_range, u1),
      x |-> RandInt(cfg.x_range, u2),
      y |-> RandInt(cfg.y_range, u1),
      color_r |-> RandInt(cfg.r_range, u2),
      color_g |-> RandInt(cfg.g_range, u1),
      color_b |-> RandInt(cfg.b_range, u2),
      opacity |-> op ]

(***************************************************************************)
(* Strings are sequences of one-character strings.                         *)
(***************************************************************************)
Digit == <<"0", "1", "2", "3", "4", "5", "6", "7", "8", "9">>

RECURSIVE NatStr(_)
NatStr(n) == IF n < 10 THEN <<Digit[n + 1]>>
             ELSE NatStr(n \div 10) \o <<Digit[(n % 10) + 1]>>

\* str(n) of an int
IntStr(n) == IF n < 0 THEN <<"-">> \o NatStr(0 - n) ELSE NatStr(n)

\* str(x) of a float with one decimal, given in tenths
FloatStr(t) ==
    IF t < 0 THEN <<"-">> \o NatStr((0 - t) \div 10) \o <<".">> \o NatStr((0 - t) % 10)
    ELSE NatStr(t \div 10) \o <<".">> \o NatStr(t % 10)

DigitValue(ch) == CHOOSE d \in 0..9 : Digit[d + 1] = ch

RECURSIVE ParseNat(_)
ParseNat(s) == IF Len(s) = 1 THEN DigitValue(s[1])
               ELSE 10 * ParseNat(SubSeq(s, 1, Len(s) - 1)) + DigitValue(s[Len(s)])

\* int(s)
ParseInt(s) == IF s[1] = "-" THEN 0 - ParseNat(Tail(s)) ELSE ParseNat(s)

RECURSIVE Split(_, _)
\* s.split(sep) for a one-character sep
Split(s, sep) ==
    IF \A i \in 1..Len(s) : s[i] # sep THEN <<s>>
    ELSE LET i == CHOOSE j \in 1..Len(s) : s[j] = sep /\ \A h \in 1..(j - 1) : s[h] # sep
         IN  <<SubSeq(s, 1, i - 1)>> \o Split(SubSeq(s, i + 1, Len(s)), sep)

\* float(s), in tenths, of a decimal with one fractional digit
ParseFloat(s) ==
    LET parts == Split(s, ".")
        whole == ParseInt(parts[1])
    IN  IF s[1] = "-" THEN 10 * whole - ParseNat(parts[2])
        ELSE 10 * whole + ParseNat(parts[2])

\* s.replace(old, new) for one-character old and new
Replace(s, old, new) == [i \in 1..Len(s) |-> IF s[i] = old THEN new ELSE s[i]]

(***************************************************************************)
(* RandomShape.__str__, as_Part2_line                                      *)
(***************************************************************************)
ShapeStr(r) ==
    IntStr(r.shape_type) \o <<"\n">> \o
    IntStr(r.x) \o <<"\n">> \o
    IntStr(r.y) \o <<"\n">> \o
    IntStr(r.radius) \o <<"\n">> \o
    IntStr(r.width) \o <<"\n">> \o
    IntStr(r.height) \o <<"\n">> \o
    IntStr(r.rx) \o <<"\n">> \o
    IntStr(r.ry) \o <<"\n">> \o
    IntStr(r.color_r) \o <<"\n">> \o
    IntStr(r.color_g) \o <<"\n">> \o
    IntStr(r.color_b) \o <<"\n">> \o
    FloatStr(r.opacity)

as_Part2_line(r) == Replace(ShapeStr(r), "\n", " ")

(***************************************************************************)
(* CircleShape, RectangleShape, EllipseShape: the NamedTuple built from    *)
(* positional data, and draw().  A drawn line is the sequence of the       *)
(* pieces of its f-string: literal text, and each formatted field as a     *)
(* string of characters.                                                   *)
(***************************************************************************)
\* a field layout in the order of the table's headers (rx, ry before width, height)
ShapeTuple_HeaderOrder(data) ==
    [ x |-> data[1], y |-> data[2], rad |-> data[3], rx |-> data[4],
      ry |-> data[5], width |-> data[6], height |-> data[7], red |-> data[8],
      green |-> data[9], blue |-> data[10], op |-> data[11] ]

ShapeTuple(data) ==
    [ x |-> data[1], y |-> data[2], rad |-> data[3], width |-> data[4],
      height |-> data[5], rx |-> data[6], ry |-> data[7], red |-> data[8],
      green |-> data[9], blue |-> data[10], op |-> data[11] ]

\* "   " * indent_level, for draw's default indent_level = 2
Indent == "      "

FillPieces(s) ==
    << "fill=\"rgb(", IntStr(s.red), ", ", IntStr(s.green), ", ", IntStr(s.blue),
       ")\" fill-opacity=\"", FloatStr(s.op) >>

CircleDraw(s) ==
    << Indent, "<circle cx=\"", IntStr(s.x), "\" cy=\"", IntStr(s.y),
       "\" r=\"", IntStr(s.rad), "\" " >>
    \o FillPieces(s) \o << "\"></circle>" >>

RectangleDraw(s) ==
    << Indent, "<rect x=\"", IntStr(s.x), "\" y=\"", IntStr(s.y),
       "\" width=\"", IntStr(s.width), "\" height=\"", IntStr(s.height), "\" " >>
    \o FillPieces(s) \o << "\"></rect>" >>

EllipseDraw(s) ==
    << Indent, "<ellipse cx=\"", IntStr(s.x), "\" cy=\"", IntStr(s.y),
       "\" rx=\"", IntStr(s.rx), "\" ry=\"", IntStr(s.ry), "\" " >>
    \o FillPieces(s) \o << "\"></ellipse>" >>

(***************************************************************************)
(* RandomShape.as_svg                                                      *)
(***************************************************************************)
AsSvgResult(r) ==
    LET input_string == as_Part2_line(r)
        fields == Split(input_string, " ")
        ints == SubSeq(fields, 2, Len(fields) - 1)
        data == [i \in 1..Len(ints) |-> ParseInt(ints[i])]
                   \o <<ParseFloat(fields[Len(fields)])>>
    IN  IF r.shape_type = 0 THEN CircleDraw(ShapeTuple(data))
        ELSE IF r.shape_type = 1 THEN RectangleDraw(ShapeTuple(data))
        ELSE EllipseDraw(ShapeTuple(data))

(***************************************************************************)
(* The values of the variables a specification does not use.               *)
(***************************************************************************)
NoProbe == [attr |-> "none"]
NoLocals == [canvas_color |-> "none"]
Generators == <<"GenRandom", "GenMatrix", "GenThinkPad">>
NoFile == [status |-> "unopened", svg_bg |-> "none"]

NoTable == [columns |-> <<>>, rows |-> <<>>]

TableIdle ==
    /\ lines = <<>>
    /\ df = NoTable

MainIdle ==
    /\ mpc = [gen |-> 0, at |-> "idle"]
    /\ file = [g \in 1..Len(Generators) |-> NoFile]
    /\ canvas = NoCanvas
    /\ locals = NoLocals
    /\ exc = "none"

(***************************************************************************)
(* Arguments the callers may pass.                                         *)
(***************************************************************************)
ShapeArgs == -1..3
AmtArgs == -1..2
SizeKeys == {"c", "r", "e", "x"}
SizeClasses == {"s", "m", "l", "q"}
ColorKeys == {"r", "g", "b", "x"}
ColorLevels == (0 - Len(color_ranges) - 1)..Len(color_ranges)
OpLevels == -1..Len(opacity_ranges)

\* the dict arguments: the empty dict, every dict of one item, the dicts the
\* drivers pass, and dicts of several items with an unknown key, an unknown
\* class or a level that raises among them
SizeDicts ==
    {<<>>} \cup { <<item>> : item \in SizeKeys \X SizeClasses }
           \cup { << <<"c", "s">>, <<"r", "m">>, <<"e", "l">> >>,
                  << <<"e", "q">>, <<"x", "s">>, <<"c", "m">> >> }

ColorDicts ==
    {<<>>} \cup { <<item>> : item \in ColorKeys \X ColorLevels }
           \cup { << <<"g", 3>>, <<"r", 0>>, <<"b", 0>> >>,
                  << <<"g", 0>>, <<"b", 0>> >>,
                  << <<"r", 1>>, <<"g", 5>>, <<"b", 2>> >> }

(***************************************************************************)
(* The operations of a driver on its config and its shape.                 *)
(***************************************************************************)
shapes(shape, amt) ==
    /\ pc = "configure"
    /\ ncalls < MaxCalls
    /\ config' = ShapesResult(config, shape, amt)
    /\ call' = [op |-> "shapes", args |-> <<shape, amt>>]
    /\ err' = "none"
    /\ ncalls' = ncalls + 1
    /\ UNCHANGED <<pc, rand, svg, probe, mainvars, tablevars>>

size(shape_sizes) ==
    /\ pc = "configure"
    /\ ncalls < MaxCalls
    /\ config' = SizeResult(config, shape_sizes)
    /\ call' = [op |-> "size", args |-> shape_sizes]
    /\ err' = "none"
    /\ ncalls' = ncalls + 1
    /\ UNCHANGED <<pc, rand, svg, probe, mainvars, tablevars>>

color(color_amounts) ==
    /\ pc = "configure"
    /\ ncalls < MaxCalls
    /\ config' = ColorResult(config, color_amounts).cfg
    /\ call' = [op |-> "color", args |-> color_amounts]
    /\ err' = ColorResult(config, color_amounts).err
    /\ ncalls' = ncalls + 1
    /\ UNCHANGED <<pc, rand, svg, probe, mainvars, tablevars>>

op_amt(amt) ==
    /\ pc = "configure"
    /\ ncalls < MaxCalls
    /\ config' = OpAmtResult(config, amt)
    /\ call' = [op |-> "op_amt", args |-> <<amt>>]
    /\ err' = "none"
    /\ ncalls' = ncalls + 1
    /\ UNCHANGED <<pc, rand, svg, probe, mainvars, tablevars>>

\* rand = RandomShape(config): __init__ runs generate_shape; when that raises,
\* no object is built and `rand` keeps its value
RandomShape ==
    /\ rand = NoShape
    /\ pc' = "loop"
    /\ call' = [op |-> "RandomShape", args |-> <<>>]
    /\ err' = GenerateError(config)
    /\ IF GenerateError(config) = "none"
       THEN \E k \in 1..Len(config.shape_type_range), u1, u2 \in Fractions :
              \E op \in Round1(Uniform(config.opacity_range, u1)) :
                  rand' = generate_shape(config, k, u1, u2, op)
       ELSE rand' = rand
    /\ svg' = NoSvg
    /\ UNCHANGED <<config, ncalls, probe, mainvars, tablevars>>

\* rand.as_svg()
as_svg ==
    /\ pc = "loop"
    /\ rand # NoShape
    /\ svg = NoSvg
    /\ svg' = AsSvgResult(rand)
    /\ call' = [op |-> "as_svg", args |-> <<>>]
    /\ err' = "none"
    /\ UNCHANGED <<pc, config, rand, ncalls, probe, mainvars, tablevars>>

\* the next turn of `for _ in range(num_shapes)`: the shape and the line of
\* the last turn are dropped
loop_next ==
    /\ pc = "loop"
    /\ svg # NoSvg
    /\ rand' = NoShape
    /\ svg' = NoSvg
    /\ call' = [op |-> "for", args |-> <<>>]
    /\ err' = "none"
    /\ UNCHANGED <<pc, config, ncalls, probe, mainvars, tablevars>>

(***************************************************************************)
(* Spec: a driver builds a default config on the 1900 x 1170 canvas,       *)
(* narrows it with any preset calls, then samples and renders shapes in a  *)
(* loop.                                                                   *)
(***************************************************************************)
Init ==
    /\ pc = "configure"
    /\ LET c == SvgCanvas(ThinkPadW, ThinkPadH, "black")
       IN  /\ config = DefaultConfig(c)
           /\ call = [op |-> "PyArtConfig", args |-> <<c.width, c.height>>]
    /\ rand = NoShape
    /\ svg = NoSvg
    /\ err = "none"
    /\ ncalls = 0
    /\ probe = NoProbe
    /\ MainIdle
    /\ TableIdle

Next ==
    \/ \E shape \in ShapeArgs, amt \in AmtArgs : shapes(shape, amt)
    \/ \E shape_sizes \in SizeDicts : size(shape_sizes)
    \/ \E color_amounts \in ColorDicts : color(color_amounts)
    \/ \E amt \in OpLevels : op_amt(amt)
    \/ RandomShape
    \/ as_svg
    \/ loop_next

Spec == Init /\ [][Next]_vars

(***************************************************************************)
(* SpecCtor: a caller builds a config with its own constructor arguments,  *)
(* well-formed or not, then samples and renders shapes.                    *)
(***************************************************************************)
CtorCanvases == Canvases \cup {SvgCanvas(-1, 0, "white"), SvgCanvas(0, -1, "white")}
CtorShapeTypes == {<<0, 1, 2>>, <<0>>, <<>>}
CtorRadius == {<<0, 100>>, <<5, 5>>, <<7, 3>>}
CtorRxy == {<<10, 30>>, <<30, 10>>}
CtorWH == {<<10, 100>>, <<100, 10>>}
CtorRed == {<<0, 255>>, <<255, 255>>, <<255, 0>>}
CtorGreenBlue == {<<0, 255>>, <<0, 0>>, <<1, 0>>}
CtorOpacity == {<<0, 100>>, <<50, 50>>, <<100, 0>>}

InitCtor ==
    /\ pc = "configure"
    /\ \E c \in CtorCanvases, st \in CtorShapeTypes, rad \in CtorRadius, rxy \in CtorRxy,
          wh \in CtorWH, r \in CtorRed, g \in CtorGreenBlue, b \in CtorGreenBlue,
          o \in CtorOpacity :
          /\ config = PyArtConfig(c, st, rad, rxy, wh, r, g, b, o)
          /\ call = [op |-> "PyArtConfig", args |-> <<c.width, c.height>>]
    /\ rand = NoShape
    /\ svg = NoSvg
    /\ err = "none"
    /\ ncalls = 0
    /\ probe = NoProbe
    /\ MainIdle
    /\ TableIdle

NextCtor ==
    \/ RandomShape
    \/ as_svg
    \/ loop_next

SpecCtor == InitCtor /\ [][NextCtor]_vars

(***************************************************************************)
(* SpecMain: main() runs GenRandom.gen, GenMatrix.gen and GenThinkPad.gen  *)
(* in turn.  Each gen() enters `with HtmlDocument(...) as doc`, inside it  *)
(* `with SvgCanvas(...) as canvas`, configures, writes its shapes, and     *)
(* leaves both blocks.  open() and every write may raise OSError; an       *)
(* exception nobody catches leaves gen() and then main().  The config and  *)
(* the shapes of a gen() are those of Spec: here one turn of its loop is   *)
(* one sampled shape written, or the write raising.                        *)
(***************************************************************************)
MaxShapes == 2    \* shapes per document (1000, 300 and 1..1000 in the code)

\* the locals each gen() sets before its with-blocks
GenLocals(g) ==
    IF Generators[g] = "GenRandom"
    THEN { [canvas_w |-> RandInt(<<100, 1440>>, u1),
            canvas_h |-> RandInt(<<100, 900>>, u2),
            canvas_color |-> cc, left |-> 0]
           : u1 \in Fractions, u2 \in Fractions, cc \in {"black", "white"} }
    ELSE IF Generators[g] = "GenMatrix"
    THEN { [canvas_w |-> 2000, canvas_h |-> 10000, canvas_color |-> "none", left |-> 0] }
    ELSE { [canvas_w |-> ThinkPadW, canvas_h |-> ThinkPadH, canvas_color |-> "none",
            left |-> 0] }

\* the SvgCanvas each gen() builds: GenRandom passes no bg, the others 'black'
GenCanvas(g, l) ==
    IF Generators[g] = "GenRandom"
    THEN SvgCanvas(l.canvas_w, l.canvas_h, "white")
    ELSE SvgCanvas(l.canvas_w, l.canvas_h, "black")

\* num_shapes of each gen(), cut to MaxShapes
NumShapes(g) ==
    IF Generators[g] = "GenRandom" THEN 1..MaxShapes ELSE {MaxShapes}

\* main() calls the next gen(), which sets its locals
GenCall ==
    /\ \/ mpc = [gen |-> 0, at |-> "idle"]
       \/ mpc.at = "returned" /\ mpc.gen < Len(Generators)
    /\ \E l \in GenLocals(mpc.gen + 1) : locals' = l
    /\ mpc' = [gen |-> mpc.gen + 1, at |-> "enter_doc"]
    /\ canvas' = NoCanvas
    /\ UNCHANGED <<file, exc, probe, cfgvars, tablevars>>

\* HtmlDocument.__enter__: open, then five lines.  When it raises, __exit__
\* is not run.
HtmlDocumentEnter ==
    /\ mpc.at = "enter_doc"
    /\ \/ /\ exc' = "OSError"            \* open() raises
          /\ mpc' = [mpc EXCEPT !.at = "raised"]
          /\ UNCHANGED file
       \/ /\ exc' = "OSError"            \* one of the writes raises
          /\ mpc' = [mpc EXCEPT !.at = "raised"]
          /\ file' = [file EXCEPT ![mpc.gen].status = "open"]
       \/ /\ exc' = "none"
          /\ mpc' = [mpc EXCEPT !.at = "enter_canvas"]
          /\ file' = [file EXCEPT ![mpc.gen].status = "open"]
    /\ UNCHANGED <<canvas, locals, probe, cfgvars, tablevars>>

\* SvgCanvas(...) and SvgCanvas.__enter__: a comment, then the <svg> line with
\* self.bg.  When it raises, SvgCanvas.__exit__ is not run.
SvgCanvasEnter ==
    /\ mpc.at = "enter_canvas"
    /\ canvas' = GenCanvas(mpc.gen, locals)
    /\ \/ /\ exc' = "OSError"            \* the comment or the <svg> line raises
          /\ mpc' = [mpc EXCEPT !.at = "exit_doc"]
          /\ UNCHANGED file
       \/ /\ exc' = "none"
          /\ mpc' = [mpc EXCEPT !.at = "configure"]
          /\ file' = [file EXCEPT ![mpc.gen].svg_bg = canvas'.bg]
    /\ UNCHANGED <<locals, probe, cfgvars, tablevars>>

\* config = PyArtConfig(canvas), the preset calls, num_shapes
GenConfigure ==
    /\ mpc.at = "configure"
    /\ \E n \in NumShapes(mpc.gen) : locals' = [locals EXCEPT !.left = n]
    /\ mpc' = [mpc EXCEPT !.at = "loop"]
    /\ UNCHANGED <<file, canvas, exc, probe, cfgvars, tablevars>>

\* one turn of the loop: rand = RandomShape(config);
\* canvas.write_html_line(rand.as_svg())
GenLoop ==
    /\ mpc.at = "loop"
    /\ locals.left > 0
    /\ \/ /\ exc' = "OSError"            \* the write raises
          /\ mpc' = [mpc EXCEPT !.at = "exit_canvas"]
          /\ UNCHANGED locals
       \/ /\ exc' = "none"
          /\ locals' = [locals EXCEPT !.left = locals.left - 1]
          /\ UNCHANGED mpc
    /\ UNCHANGED <<file, canvas, probe, cfgvars, tablevars>>

\* SvgCanvas.__exit__: one line; it returns None, so an exception in flight
\* goes on
SvgCanvasExit ==
    /\ \/ mpc.at = "exit_canvas"
       \/ mpc.at = "loop" /\ locals.left = 0
    /\ \/ exc' = "OSError"               \* the write raises
       \/ exc' = exc
    /\ mpc' = [mpc EXCEPT !.at = "exit_doc"]
    /\ UNCHANGED <<file, canvas, locals, probe, cfgvars, tablevars>>

\* HtmlDocument.__exit__: two lines, then self.file.close(); it returns None
HtmlDocumentExit ==
    /\ mpc.at = "exit_doc"
    /\ \/ /\ exc' = "OSError"            \* one of the writes raises: no close()
          /\ mpc' = [mpc EXCEPT !.at = "raised"]
          /\ UNCHANGED file
       \/ /\ exc' = exc
          /\ file' = [file EXCEPT ![mpc.gen].status = "closed"]
          /\ mpc' = [mpc EXCEPT !.at = IF exc = "none" THEN "returned" ELSE "raised"]
    /\ UNCHANGED <<canvas, locals, probe, cfgvars, tablevars>>

\* main() ends: after the last gen() returned, or by the exception of a gen()
MainEnd ==
    /\ \/ mpc.at = "returned" /\ mpc.gen = Len(Generators)
       \/ mpc.at = "raised"
    /\ mpc' = [mpc EXCEPT !.at = "done"]
    /\ UNCHANGED <<file, canvas, locals, exc, probe, cfgvars, tablevars>>

InitMain ==
    /\ pc = "idle"
    /\ config = DefaultConfig(SvgCanvas(DefaultCanvasSide, DefaultCanvasSide, "white"))
    /\ call = [op |-> "main", args |-> <<>>]
    /\ rand = NoShape
    /\ svg = NoSvg
    /\ err = "none"
    /\ ncalls = 0
    /\ probe = NoProbe
    /\ MainIdle
    /\ TableIdle

NextMain ==
    \/ GenCall
    \/ HtmlDocumentEnter
    \/ SvgCanvasEnter
    \/ GenConfigure
    \/ GenLoop
    \/ SvgCanvasExit
    \/ HtmlDocumentExit
    \/ MainEnd

SpecMain == InitMain /\ [][NextMain]_vars

(***************************************************************************)
(* SpecBands: for one banded attribute and one value of its default range, *)
(* a caller installs each preset band of the attribute in turn, by the     *)
(* preset call that installs it, and notes the bands that hold the value.  *)
(***************************************************************************)
SizeBandNames == <<"s", "m", "l">>
SizeKeyOf == [a \in {"radius_range", "w_h_range", "rxy_range"} |->
                 IF a = "radius_range" THEN "c" ELSE IF a = "w_h_range" THEN "r" ELSE "e"]
ColorKeyOf == [a \in {"r_range", "g_range", "b_range"} |->
                 IF a = "r_range" THEN "r" ELSE IF a = "g_range" THEN "g" ELSE "b"]
BandedAttrs == DOMAIN SizeKeyOf \cup DOMAIN ColorKeyOf \cup {"opacity_range"}

\* how many bands the presets offer for attr
NumBands(attr) ==
    IF attr \in DOMAIN SizeKeyOf THEN Len(SizeBandNames)
    ELSE IF attr \in DOMAIN ColorKeyOf THEN Len(color_ranges)
    ELSE Len(opacity_ranges)

\* the default range of attr
FullRange(attr) == DefaultConfig(SvgCanvas(DefaultCanvasSide, DefaultCanvasSide, "white"))[attr]

\* the probe after the preset call that left cfg2
Probed(cfg2) ==
    [probe EXCEPT !.tried = probe.tried + 1,
                  !.hits = IF probe.v >= cfg2[probe.attr][1] /\ probe.v <= cfg2[probe.attr][2]
                           THEN probe.hits \cup {cfg2[probe.attr]}
                           ELSE probe.hits]

TrySizeBand ==
    /\ probe.attr \in DOMAIN SizeKeyOf
    /\ probe.tried < NumBands(probe.attr)
    /\ LET shape_sizes == << <<SizeKeyOf[probe.attr], SizeBandNames[probe.tried + 1]>> >>
       IN  /\ config' = SizeResult(config, shape_sizes)
           /\ call' = [op |-> "size", args |-> shape_sizes]
           /\ err' = "none"
    /\ probe' = Probed(config')
    /\ ncalls' = ncalls + 1
    /\ UNCHANGED <<pc, rand, svg, mainvars, tablevars>>

TryColorBand ==
    /\ probe.attr \in DOMAIN ColorKeyOf
    /\ probe.tried < NumBands(probe.attr)
    /\ LET color_amounts == << <<ColorKeyOf[probe.attr], probe.tried>> >>
       IN  /\ config' = ColorResult(config, color_amounts).cfg
           /\ call' = [op |-> "color", args |-> color_amounts]
           /\ err' = ColorResult(config, color_amounts).err
    /\ probe' = Probed(config')
    /\ ncalls' = ncalls + 1
    /\ UNCHANGED <<pc, rand, svg, mainvars, tablevars>>

TryOpacityBand ==
    /\ probe.attr = "opacity_range"
    /\ probe.tried < NumBands(probe.attr)
    /\ config' = OpAmtResult(config, probe.tried)
    /\ call' = [op |-> "op_amt", args |-> <<probe.tried>>]
    /\ err' = "none"
    /\ probe' = Probed(config')
    /\ ncalls' = ncalls + 1
    /\ UNCHANGED <<pc, rand, svg, mainvars, tablevars>>

InitBands ==
    /\ pc = "configure"
    /\ config = DefaultConfig(SvgCanvas(DefaultCanvasSide, DefaultCanvasSide, "white"))
    /\ call = [op |-> "PyArtConfig", args |-> <<DefaultCanvasSide, DefaultCanvasSide>>]
    /\ rand = NoShape
    /\ svg = NoSvg
    /\ err = "none"
    /\ ncalls = 0
    /\ \E attr \in BandedAttrs :
          \E v \in FullRange(attr)[1]..FullRange(attr)[2] :
              probe = [attr |-> attr, v |-> v, tried |-> 0, hits |-> {}]
    /\ MainIdle
    /\ TableIdle

NextBands ==
    \/ TrySizeBand
    \/ TryColorBand
    \/ TryOpacityBand

SpecBands == InitBands /\ [][NextBands]_vars

(***************************************************************************)
(* SpecTable: a caller samples shapes from a default config, appends each  *)
(* shape's as_Part2_line() to a list, and builds the table of the list     *)
(* with TableGen(lines).gen_df().  A table is its columns, in order, and   *)
(* its rows, each a cell (a string) per column.                            *)
(***************************************************************************)
MaxLines == 1     \* lines a caller collects

headers == <<"SHA", "X", "Y", "RAD", "RX", "RY", "W", "H", "R", "G", "B", "OP">>

\* pd.DataFrame(data, columns=headers), df['CNT'] = df.index,
\* df[['CNT'] + headers]
GenDfResult(lns) ==
    LET data == [i \in 1..Len(lns) |-> Split(lns[i], " ")]
        names == {"CNT"} \cup {headers[j] : j \in 1..Len(headers)}
        place(c) == CHOOSE j \in 1..Len(headers) : headers[j] = c
    IN  [ columns |-> <<"CNT">> \o headers,
          rows |-> [i \in 1..Len(lns) |->
                      [c \in names |-> IF c = "CNT" THEN IntStr(i - 1)
                                       ELSE data[i][place(c)]]] ]

\* lines.append(rand.as_Part2_line())
append_line ==
    /\ pc = "loop"
    /\ rand # NoShape
    /\ Len(lines) < MaxLines
    /\ lines' = Append(lines, as_Part2_line(rand))
    /\ call' = [op |-> "as_Part2_line", args |-> <<>>]
    /\ err' = "none"
    /\ UNCHANGED <<pc, config, rand, svg, ncalls, df, probe, mainvars>>

\* TableGen(lines).gen_df()
gen_df ==
    /\ df' = GenDfResult(lines)
    /\ call' = [op |-> "gen_df", args |-> <<>>]
    /\ err' = "none"
    /\ UNCHANGED <<pc, config, rand, svg, ncalls, lines, probe, mainvars>>

NextTable ==
    \/ RandomShape
    \/ append_line
    \/ as_svg
    \/ loop_next
    \/ gen_df

SpecTable == Init /\ [][NextTable]_vars

(***************************************************************************)
(* Helpers of the properties.                                              *)
(***************************************************************************)
InRange(v, range) == range[1] <= v /\ v <= range[2]

\* the last step ran RandomShape(config) and it built a shape
Sampled == call.op = "RandomShape" /\ err = "none"

\* this step is a call of the preset `name`
PresetStep(name) == call'.op = name /\ ncalls' = ncalls + 1

\* the attributes of cfg that differ in cfg2
Changed(cfg, cfg2) == {f \in DOMAIN cfg : cfg[f] # cfg2[f]}

IntAttrsInRange ==
    /\ InRange(rand.x, config.x_range)
    /\ InRange(rand.y, config.y_range)
    /\ InRange(rand.radius, config.radius_range)
    /\ InRange(rand.width, config.w_h_range)
    /\ InRange(rand.height, config.w_h_range)
    /\ InRange(rand.rx, config.rxy_range)
    /\ InRange(rand.ry, config.rxy_range)
    /\ InRange(rand.color_r, config.r_range)
    /\ InRange(rand.color_g, config.g_range)
    /\ InRange(rand.color_b, config.b_range)

(***************************************************************************)
(* C1.  Every config a default config reaches by preset calls is one that  *)
(* valid preset calls reach (a call with invalid arguments changes nothing *)
(* or installs a band), so the states below are the claim's states.        *)
(***************************************************************************)
\* C1, as claimed: every attribute of a shape just sampled lies in the config's
\* current range for it, inclusive, the reported (rounded) opacity too.
C1_AsClaimed ==
    Sampled => /\ IntAttrsInRange
               /\ InRange(10 * rand.opacity, config.opacity_range)

\* C1, amended: every integer attribute of a shape just sampled lies in the
\* config's current range for it, inclusive; the reported opacity is within
\* 0.05 of the opacity range (rounding to one decimal can leave the range).
C1_SampledInRange ==
    Sampled => /\ IntAttrsInRange
               /\ config.opacity_range[1] - 5 <= 10 * rand.opacity
               /\ 10 * rand.opacity <= config.opacity_range[2] + 5

\* a shape sampled after op_amt(1) whose reported opacity 0.3 is below 0.33,
\* with a radius on the upper bound of its narrowed range
C1_Witness ==
    /\ Sampled
    /\ ncalls > 0
    /\ config.opacity_range = <<33, 66>>
    /\ rand.opacity = 3
    /\ rand.width = config.w_h_range[2]

(***************************************************************************)
(* C2                                                                      *)
(***************************************************************************)
Kinds(cfg) == {cfg.shape_type_range[i] : i \in 1..Len(cfg.shape_type_range)}

ValidShapesCall(c) == c.op = "shapes" /\ c.args[1] \in {0, 1, 2} /\ c.args[2] \in {0, 1}

\* C2: the allowed kinds are all three until the first valid shapes call; a
\* valid shapes(kind, 1) sets them to exactly {kind}, a valid shapes(kind, 0)
\* to the other two kinds; every other step leaves them alone; they are always
\* a non-empty subset of {0, 1, 2}, and a sampled shape has an allowed kind
\* (the single one after an "only" restriction).
C2_AllowedKinds ==
    /\ [](/\ Kinds(config) # {}
          /\ Kinds(config) \subseteq {0, 1, 2}
          /\ Len(config.shape_type_range) = Cardinality(Kinds(config))
          /\ (ncalls = 0 => Kinds(config) = {0, 1, 2})
          /\ (Sampled => rand.shape_type \in Kinds(config)))
    /\ [][ IF PresetStep("shapes") /\ ValidShapesCall(call')
           THEN Kinds(config') = IF call'.args[2] = 1
                                 THEN {call'.args[1]}
                                 ELSE {0, 1, 2} \ {call'.args[1]}
           ELSE Kinds(config') = Kinds(config) ]_vars

\* an ellipse sampled after shapes(2, 1) that followed another preset call
C2_Witness ==
    /\ Sampled
    /\ ncalls = 2
    /\ Kinds(config) = {2}
    /\ rand.shape_type = 2

(***************************************************************************)
(* C3 (under SpecBands)                                                    *)
(***************************************************************************)
\* C3, as claimed: a value of an attribute's default range lies in no two
\* different preset bands of the attribute, and, once all bands have been
\* tried, in at least one.
C3_AsClaimed ==
    probe.attr # "none" =>
        /\ Cardinality(probe.hits) <= 1
        /\ (probe.tried = NumBands(probe.attr) => probe.hits # {})

\* C3, amended: every preset band lies within the attribute's default range;
\* a value of the default range lies in at least one band; it lies in two
\* different bands only when it is their shared bound (the upper bound of one,
\* the lower bound of the other), and never in three.
C3_BandsCover ==
    probe.attr # "none" =>
        /\ (probe.tried > 0 =>
               /\ FullRange(probe.attr)[1] <= config[probe.attr][1]
               /\ config[probe.attr][1] <= config[probe.attr][2]
               /\ config[probe.attr][2] <= FullRange(probe.attr)[2])
        /\ (probe.tried = NumBands(probe.attr) => probe.hits # {})
        /\ Cardinality(probe.hits) <= 2
        /\ \A b1, b2 \in probe.hits :
              b1 # b2 => \/ (b1[2] = probe.v /\ b2[1] = probe.v)
                         \/ (b2[2] = probe.v /\ b1[1] = probe.v)

\* all five bands of the green channel tried for the value 85, which two of
\* them hold
C3_Witness ==
    /\ probe.attr = "g_range"
    /\ probe.v = 85
    /\ probe.tried = NumBands("g_range")
    /\ probe.hits = {<<0, 85>>, <<85, 170>>}

(***************************************************************************)
(* C4                                                                      *)
(***************************************************************************)
\* the documented bands
DocumentedBand(kind, class) ==
    IF kind = "c" THEN (IF class = "s" THEN <<0, 33>>
                        ELSE IF class = "m" THEN <<33, 66>> ELSE <<66, 100>>)
    ELSE IF kind = "r" THEN (IF class = "s" THEN <<10, 40>>
                             ELSE IF class = "m" THEN <<40, 70>> ELSE <<70, 100>>)
    ELSE (IF class = "s" THEN <<10, 17>>
          ELSE IF class = "m" THEN <<17, 24>> ELSE <<24, 30>>)

SizeAttr(kind) == IF kind = "c" THEN "radius_range"
                  ELSE IF kind = "r" THEN "w_h_range" ELSE "rxy_range"

\* C4: size({kind: class}) with a known kind and class replaces exactly that
\* kind's size range by the documented band and leaves all else unchanged; with
\* an unknown kind or class it leaves the whole config unchanged.
C4_SizeBand ==
    [][ (PresetStep("size") /\ Len(call'.args) = 1) =>
            LET kind == call'.args[1][1]
                class == call'.args[1][2]
            IN  IF kind \in {"c", "r", "e"} /\ class \in {"s", "m", "l"}
                THEN config' = [config EXCEPT ![SizeAttr(kind)] = DocumentedBand(kind, class)]
                ELSE config' = config ]_vars

\* size({'c': 'l'}) has set the radius range to (66, 100)
C4_Witness ==
    /\ call.op = "size"
    /\ call.args = << <<"c", "l">> >>
    /\ config.radius_range = <<66, 100>>
    /\ config.w_h_range = <<10, 100>>

(***************************************************************************)
(* C5                                                                      *)
(***************************************************************************)
\* C5, as claimed: color({channel: level}) with a known channel and a level
\* outside 0..4 raises and sets no range; with an unknown channel it is
\* ignored and changes no range.
C5_AsClaimed ==
    [][ (PresetStep("color") /\ Len(call'.args) = 1) =>
            LET channel == call'.args[1][1]
                level == call'.args[1][2]
            IN  /\ (channel \in {"r", "g", "b"} /\ level \notin 0..4)
                      => (err' # "none" /\ config' = config)
                /\ (channel \notin {"r", "g", "b"})
                      => (err' = "none" /\ config' = config) ]_vars

(***************************************************************************)
(* C9                                                                      *)
(***************************************************************************)
\* the channels a color() argument names
NamedChannelRanges(color_amounts) ==
    { IF color_amounts[i][1] = "r" THEN "r_range"
      ELSE IF color_amounts[i][1] = "g" THEN "g_range"
      ELSE IF color_amounts[i][1] = "b" THEN "b_range" ELSE "none"
      : i \in 1..Len(color_amounts) }

\* C9: the position ranges are (0, canvas width) and (0, canvas height) at
\* construction and no step changes them; shapes changes at most the allowed
\* kinds, color at most the ranges of the channels it names, op_amt at most
\* the opacity range and nothing for a level outside 0..3, size at most the
\* three size ranges.
C9_Frame ==
    /\ [](call.op = "PyArtConfig" =>
             /\ config.x_range = <<0, call.args[1]>>
             /\ config.y_range = <<0, call.args[2]>>)
    /\ [][ /\ config'.x_range = config.x_range
           /\ config'.y_range = config.y_range
           /\ PresetStep("shapes") => Changed(config, config') \subseteq {"shape_type_range"}
           /\ PresetStep("size") =>
                 Changed(config, config') \subseteq {"radius_range", "w_h_range", "rxy_range"}
           /\ PresetStep("color") =>
                 Changed(config, config') \subseteq NamedChannelRanges(call'.args)
           /\ PresetStep("op_amt") =>
                 /\ Changed(config, config') \subseteq {"opacity_range"}
                 /\ (call'.args[1] \notin 0..3 => config' = config)
           /\ (call'.op \in {"RandomShape", "as_svg"}) => config' = config ]_vars

\* on the 1900 x 1170 canvas, after op_amt(-1) and a color call that changed a
\* channel, the position ranges and the opacity range are the constructed ones
C9_Witness ==
    /\ ncalls = 2
    /\ call.op = "op_amt"
    /\ call.args[1] = -1
    /\ config.x_range = <<0, ThinkPadW>>
    /\ config.y_range = <<0, ThinkPadH>>
    /\ config.opacity_range = <<0, 100>>
    /\ config.g_range = <<170, 255>>

(***************************************************************************)
(* C6 (under SpecCtor)                                                     *)
(***************************************************************************)
IntRangeAttrs == {"x_range", "y_range", "radius_range", "w_h_range", "rxy_range",
                  "r_range", "g_range", "b_range"}

Malformed(range) == range[1] > range[2]

ExpectedSvg(r) ==
    LET fill == << "fill=\"rgb(", IntStr(r.color_r), ", ", IntStr(r.color_g), ", ",
                   IntStr(r.color_b), ")\" fill-opacity=\"", FloatStr(r.opacity) >>
    IN  IF r.shape_type = 0
        THEN << Indent, "<circle cx=\"", IntStr(r.x), "\" cy=\"", IntStr(r.y),
                "\" r=\"", IntStr(r.radius), "\" " >> \o fill \o << "\"></circle>" >>
        ELSE IF r.shape_type = 1
        THEN << Indent, "<rect x=\"", IntStr(r.x), "\" y=\"", IntStr(r.y),
                "\" width=\"", IntStr(r.width), "\" height=\"", IntStr(r.height),
                "\" " >> \o fill \o << "\"></rect>" >>
        ELSE << Indent, "<ellipse cx=\"", IntStr(r.x), "\" cy=\"", IntStr(r.y),
                "\" rx=\"", IntStr(r.rx), "\" ry=\"", IntStr(r.ry),
                "\" " >> \o fill \o << "\"></ellipse>" >>

\* the config of the end-to-end scenario: circles only, radius (5,5), position
\* (0,0), color (255,0,0), opacity (0.5,0.5)
ScenarioConfig ==
    /\ config.shape_type_range = <<0>>
    /\ config.radius_range = <<5, 5>>
    /\ config.x_range = <<0, 0>>
    /\ config.y_range = <<0, 0>>
    /\ config.r_range = <<255, 255>>
    /\ config.g_range = <<0, 0>>
    /\ config.b_range = <<0, 0>>
    /\ config.opacity_range = <<50, 50>>

ScenarioLine ==
    << Indent, "<circle cx=\"", <<"0">>, "\" cy=\"", <<"0">>, "\" r=\"", <<"5">>, "\" ",
       "fill=\"rgb(", <<"2", "5", "5">>, ", ", <<"0">>, ", ", <<"0">>,
       ")\" fill-opacity=\"", <<"0", ".", "5">>, "\"></circle>" >>

\* C10: as_svg returns the markup of the sampled kind whose fields are the
\* sampled values (circle: x, y, radius; rectangle: x, y, width, height;
\* ellipse: x, y, rx, ry; all: red, green, blue, rounded opacity); for the
\* scenario's config it is the circle cx=0 cy=0 r=5 rgb(255, 0, 0) opacity 0.5.
C10_SvgFields ==
    (call.op = "as_svg") =>
        /\ svg = ExpectedSvg(rand)
        /\ (ScenarioConfig => svg = ScenarioLine)

\* a rectangle whose width and height differ, and differ from its rx and ry,
\* has been rendered
C10_Witness ==
    /\ call.op = "as_svg"
    /\ rand.shape_type = 1
    /\ rand.width # rand.height
    /\ rand.width # rand.rx
    /\ rand.height # rand.ry
    /\ rand.x # rand.y
    /\ svg # NoSvg

\* the scenario's circle has been rendered
C10_ScenarioWitness ==
    /\ call.op = "as_svg"
    /\ ScenarioConfig
    /\ svg = ScenarioLine

(***************************************************************************)
(* C7 (under SpecMain)                                                     *)
(***************************************************************************)
\* C7, as claimed: when main() has ended, every file that was opened is closed.
C7_AsClaimed ==
    mpc.at = "done" => \A g \in 1..Len(Generators) : file[g].status # "open"

(***************************************************************************)
(* C8 (under SpecMain)                                                     *)
(***************************************************************************)
\* C8, as claimed: when main() has ended, each of the three gen() was started,
\* whatever the outcome of the others.
C8_AsClaimed ==
    mpc.at = "done" => mpc.gen = Len(Generators)

(***************************************************************************)
(* C11 (under SpecMain)                                                    *)
(***************************************************************************)
\* C11, as claimed: once GenRandom.gen has written its <svg> line, the
\* background in it is the canvas_color it drew (so black and white both occur).
C11_AsClaimed ==
    (mpc.gen = 1 /\ Generators[1] = "GenRandom" /\ file[1].svg_bg # "none")
        => file[1].svg_bg = locals.canvas_color

(***************************************************************************)
(* C12 (under SpecTable)                                                   *)
(***************************************************************************)
\* C12, as claimed: in the table built from the lines, the row of a shape
\* holds under each header the attribute the header names: RX and RY the
\* sampled rx and ry, W and H the sampled width and height, and SHA, X, Y, RAD,
\* R, G, B, OP the kind, x, y, radius, red, green, blue and opacity.  (Stated
\* of the last row, when the last line is the line of the shape in `rand`.)
C12_AsClaimed ==
    (call.op = "gen_df" /\ rand # NoShape /\ Len(lines) > 0
        /\ lines[Len(lines)] = as_Part2_line(rand))
    => LET row == df.rows[Len(lines)]
       IN  /\ row["SHA"] = IntStr(rand.shape_type)
           /\ row["X"] = IntStr(rand.x)
           /\ row["Y"] = IntStr(rand.y)
           /\ row["RAD"] = IntStr(rand.radius)
           /\ row["RX"] = IntStr(rand.rx)
           /\ row["RY"] = IntStr(rand.ry)
           /\ row["W"] = IntStr(rand.width)
           /\ row["H"] = IntStr(rand.height)
           /\ row["R"] = IntStr(rand.color_r)
           /\ row["G"] = IntStr(rand.color_g)
           /\ row["B"] = IntStr(rand.color_b)
           /\ row["OP"] = FloatStr(rand.opacity)

\* the columns other than RX, RY, W and H do hold what their headers name, and
\* CNT holds the row's index from 0
C12_OtherColumns ==
    (call.op = "gen_df" /\ rand # NoShape /\ Len(lines) > 0
        /\ lines[Len(lines)] = as_Part2_line(rand))
    => LET row == df.rows[Len(lines)]
       IN  /\ row["CNT"] = IntStr(Len(lines) - 1)
           /\ row["SHA"] = IntStr(rand.shape_type)
           /\ row["X"] = IntStr(rand.x)
           /\ row["Y"] = IntStr(rand.y)
           /\ row["RAD"] = IntStr(rand.radius)
           /\ row["RX"] = IntStr(rand.width)
           /\ row["RY"] = IntStr(rand.height)
           /\ row["W"] = IntStr(rand.rx)
           /\ row["H"] = IntStr(rand.ry)
           /\ row["R"] = IntStr(rand.color_r)
           /\ row["G"] = IntStr(rand.color_g)
           /\ row["B"] = IntStr(rand.color_b)
           /\ row["OP"] = FloatStr(rand.opacity)

====
